---- MODULE Spec2Model ----
(***************************************************************************)
(* ConcreteModuleType (build / freeze / compare) and the sugared values of *)
(* torch/csrc/jit/script/python_sugared_value.h as a state machine.        *)
(***************************************************************************)
EXTENDS Integers, Sequences, FiniteSets, TLC

\* ------------------------------------------------------------------ bounds
\* Total number of entries (constants, attributes, function attributes,
\* submodules, overload tables) held by all builders together.
MaxEntries == 2

\* The ConcreteModuleType objects of a run.
CMTs == {1, 2}

\* Attribute / constant / method names.
Names == {"a", "b"}

\* ------------------------------------------------------------------ host objects
\* py::object handles.  NoneObj is a default-constructed (null) py::object.
NoneObj == "null"

\* Host classes (nn.Module subclasses).
PyClasses == {"K1", "K2"}

\* torch._jit_internal._qualified_name(cls): module prefix and class name.
\* K1 is defined at top level (no prefix), K2 lives in module __torch__.
PyQualName(cls) ==
    IF cls = "K1" THEN [prefix |-> "", name |-> "M", mangle |-> -1]
                  ELSE [prefix |-> "__torch__", name |-> "M", mangle |-> -1]

\* Host values usable as constants: identity and value.  x1 and x2 are two
\* objects of equal value, y has another value, arr is an object whose
\* __eq__ against another object raises.
PyValues == {"x1", "x2", "y", "arr"}

PyVal(o) == IF o \in {"x1", "x2"} THEN "x" ELSE o

\* PyObject_RichCompareBool(a, b, Py_EQ): 1, 0 or -1 (error set).
PyObject_RichCompareBool(a, b) ==
    IF a = b THEN 1
    ELSE IF a = "arr" \/ b = "arr" THEN -1
    ELSE IF PyVal(a) = PyVal(b) THEN 1 ELSE 0

\* ------------------------------------------------------------------ IR types
\* A TypePtr: the pointee's identity (obj) and its structure (kind, tag).
NullType == [kind |-> "null", obj |-> 0, tag |-> ""]
TensorT == [kind |-> "Tensor", obj |-> 0, tag |-> ""]
DimTensorT == [kind |-> "DimensionedTensor", obj |-> 1, tag |-> "2"]
IntT == [kind |-> "int", obj |-> 0, tag |-> ""]
\* Two FunctionType objects for the same function f.
FnT1 == [kind |-> "Function", obj |-> 2, tag |-> "f"]
FnT2 == [kind |-> "Function", obj |-> 3, tag |-> "f"]
\* The class type of a submodule.
SubT == [kind |-> "Class", obj |-> 4, tag |-> "S"]

\* Type::operator== : structural equality of the pointees.
TypeEq(s, t) == s.kind = t.kind /\ s.tag = t.tag

\* shared_ptr operator== : same pointee.
PtrEq(s, t) == s.obj = t.obj /\ s.kind = t.kind /\ s.tag = t.tag

\* unshapedType(type): tensor subtypes lose their shape information.
unshapedType(t) == IF t.kind = "DimensionedTensor" THEN TensorT ELSE t

\* ------------------------------------------------------------------ maps
EmptyMap == [x \in {} |-> x]

\* An insertion that overwrites the entry when the key is present.
Emplace_Overwrite(m, k, v) ==
    [x \in DOMAIN m \cup {k} |-> IF x = k THEN v ELSE m[x]]

\* std::unordered_map::emplace: no effect when the key is present.
Emplace(m, k, v) ==
    IF k \in DOMAIN m THEN m
    ELSE [x \in DOMAIN m \cup {k} |-> IF x = k THEN v ELSE m[x]]

\* All orders in which a container of unspecified order can be iterated.
Orders(S) ==
    {s \in [1..Cardinality(S) -> S] : \A i, j \in 1..Cardinality(S) : i # j => s[i] # s[j]}

\* ------------------------------------------------------------------ state
VARIABLES
    cmt,          \* the ConcreteModuleType objects, by id
    insertOrder,  \* history: per object, the names of attributes_ in emplace order
    classes,      \* the compilation unit's registered ClassTypes; a ClassTypePtr is an index, 0 is nullptr
    mangleIndex,  \* the compilation unit's mangle counter
    last,         \* the last call: operation, receiver, outcome, second operand
    typeStore,    \* the concrete type cache: per host class, the materialized objects in insertion order
    resolved,     \* per structured instance, the ConcreteModuleType the cache returned for it (0: none yet)
    moduleValue,  \* the ModuleValue objects, by id
    attrResult,   \* history: per ModuleValue and field, what attr returned last
    declared,     \* history: the candidate list an overloaded value was constructed from
    overloaded,   \* an OverloadedMethodValue or OverloadedFunctionValue
    callResult,   \* what the last call on the overloaded value did
    tupleMethod,  \* a ConstantTupleMethod
    tupleValues,  \* the ConstantTupleValue objects, in order of construction
    paramList,    \* a ConstantParameterList
    given,        \* history: what the tuple and list values were constructed from, and reads so far
    sugarLast     \* the last call on a tuple or list value: operation, arguments, outcome

\* The state outside the ConcreteModuleType objects and the compilation unit.
others ==
    <<typeStore, resolved, moduleValue, attrResult, declared, overloaded, callResult,
      tupleMethod, tupleValues, paramList, given, sugarLast>>

\* The constant tuple and parameter list values.
sugars == <<tupleMethod, tupleValues, paramList, given, sugarLast>>

\* The sugared values.
values == <<moduleValue, attrResult, declared, overloaded, callResult, sugars>>

\* No sugared value has been constructed.
NoValue == [kind |-> "none"]

\* No constant tuple or parameter list value has been constructed.
NoSugar ==
    /\ tupleMethod = NoValue
    /\ tupleValues = <<>>
    /\ paramList = NoValue
    /\ given = NoValue
    /\ sugarLast = NoValue

\* The concrete type cache is empty and no sugared value exists.
Idle ==
    /\ NoSugar
    /\ typeStore = [k \in PyClasses \cup {NoneObj} |-> <<>>]
    /\ resolved = [i \in CMTs |-> 0]
    /\ moduleValue = <<>>
    /\ attrResult = <<>>
    /\ declared = <<>>
    /\ overloaded = NoValue
    /\ callResult = NoValue

vars == <<cmt, insertOrder, classes, mangleIndex, last, others>>

\* A default-constructed ConcreteModuleType (member initialisers, lines 376-391).
NewConcreteModuleType ==
    [pyClass_ |-> NoneObj,
     constants_ |-> EmptyMap,
     attributes_ |-> EmptyMap,
     overloads_ |-> EmptyMap,
     failedAttributes_ |-> EmptyMap,
     functionAttributes_ |-> EmptyMap,
     modules_ |-> <<>>,
     jitType_ |-> 0]

\* Number of entries a ConcreteModuleType holds.
Entries(c) ==
    Cardinality(DOMAIN c.constants_) + Cardinality(DOMAIN c.attributes_)
    + Cardinality(DOMAIN c.overloads_) + Cardinality(DOMAIN c.functionAttributes_)
    + Len(c.modules_)

RECURSIVE SumEntries(_, _)
SumEntries(f, S) ==
    IF S = {} THEN 0
    ELSE LET i == CHOOSE x \in S : TRUE IN Entries(f[i]) + SumEntries(f, S \ {i})

WithinBounds(f) == SumEntries(f, CMTs) <= MaxEntries

\* A class type compiled earlier and already registered in the compilation unit.
ExtClass ==
    [name |-> [prefix |-> "__torch__", name |-> "Ext", mangle |-> -1], attrs |-> <<>>]

Ret(op, i, res, val) == [op |-> op, self |-> i, res |-> res, val |-> val]

Init ==
    /\ cmt = [i \in CMTs |-> NewConcreteModuleType]
    /\ insertOrder = [i \in CMTs |-> <<>>]
    /\ classes = <<ExtClass>>
    /\ mangleIndex = 0
    /\ last = Ret("none", 0, "ok", 0)
    /\ Idle

\* A failed TORCH_INTERNAL_ASSERT throws before anything is written.
Fatal(op, i) ==
    /\ last' = Ret(op, i, "fatal", 0)
    /\ UNCHANGED <<cmt, insertOrder, classes, mangleIndex, others>>

\* ------------------------------------------------------------------ compilation unit
\* CompilationUnit::get_class: the registered class of that name, or nullptr (0).
get_class(cs, qn) ==
    IF \E k \in 1..Len(cs) : cs[k].name = qn
    THEN CHOOSE k \in 1..Len(cs) : cs[k].name = qn
    ELSE 0

\* CompilationUnit::mangle: a disambiguated name built from the unit's counter.
mangle(qn, idx) == [prefix |-> qn.prefix, name |-> qn.name, mangle |-> idx]

\* The class name createNewTypeFromThis derives (lines 241-250).
DefaultPrefix(qn) ==
    IF qn.prefix = "" THEN [prefix |-> "__torch__", name |-> qn.name, mangle |-> qn.mangle]
    ELSE qn

\* The derived name used as is, without asking the unit whether it is taken.
ClassNameFor_NoLookup(cs, pyClass, idx) == DefaultPrefix(PyQualName(pyClass))

ClassNameFor(cs, pyClass, idx) ==
    LET className == DefaultPrefix(PyQualName(pyClass))
    IN IF get_class(cs, className) # 0 THEN mangle(className, idx) ELSE className

\* ------------------------------------------------------------------ ConcreteModuleType
jitType(i) ==
    /\ IF cmt[i].jitType_ = 0
       THEN last' = Ret("jitType", i, "fatal", 0)
       ELSE last' = Ret("jitType", i, "ok", 0)
    /\ UNCHANGED <<cmt, insertOrder, classes, mangleIndex, others>>

\* The attributes registered on the new class: one per entry of attributes_,
\* in the iteration order of the unordered_map (lines 255-261).
RegisteredAttrs(c, order) ==
    [k \in 1..Len(order) |->
        [name |-> order[k],
         type |-> c.attributes_[order[k]].type_,
         isParam |-> c.attributes_[order[k]].isParam_]]

\* The body of createNewTypeFromThis after its assertions (lines 240-264).
NewType(i) ==
    \E order \in Orders(DOMAIN cmt[i].attributes_) :
        LET className == ClassNameFor(classes, cmt[i].pyClass_, mangleIndex)
            mangled == className.mangle # -1
            cls == [name |-> className, attrs |-> RegisteredAttrs(cmt[i], order)]
        IN /\ classes' = Append(classes, cls)
           /\ mangleIndex' = IF mangled THEN mangleIndex + 1 ELSE mangleIndex
           /\ cmt' = [cmt EXCEPT ![i].jitType_ = Len(classes) + 1]

\* createNewTypeFromThis without the assertion on pyClass_.
createNewTypeFromThis_NoClassCheck(i) ==
    IF cmt[i].jitType_ # 0
    THEN Fatal("createNewTypeFromThis", i)
    ELSE /\ NewType(i)
         /\ last' = Ret("createNewTypeFromThis", i, "ok", 0)
         /\ UNCHANGED <<insertOrder, others>>

\* createNewTypeFromThis (lines 236-265).
createNewTypeFromThis(i) ==
    IF cmt[i].jitType_ # 0 \/ cmt[i].pyClass_ = NoneObj
    THEN Fatal("createNewTypeFromThis", i)
    ELSE /\ NewType(i)
         /\ last' = Ret("createNewTypeFromThis", i, "ok", 0)
         /\ UNCHANGED <<insertOrder, others>>

\* addJitType without its assertion.
addJitType_Unchecked(i, type) ==
    /\ cmt' = [cmt EXCEPT ![i].jitType_ = type]
    /\ last' = Ret("addJitType", i, "ok", 0)
    /\ UNCHANGED <<insertOrder, classes, mangleIndex, others>>

addJitType(i, type) ==
    IF cmt[i].jitType_ # 0
    THEN Fatal("addJitType", i)
    ELSE /\ cmt' = [cmt EXCEPT ![i].jitType_ = type]
         /\ last' = Ret("addJitType", i, "ok", 0)
         /\ UNCHANGED <<insertOrder, classes, mangleIndex, others>>

addPyClass(i, pyClass) ==
    IF cmt[i].jitType_ # 0
    THEN Fatal("addPyClass", i)
    ELSE /\ cmt' = [cmt EXCEPT ![i].pyClass_ = pyClass]
         /\ last' = Ret("addPyClass", i, "ok", 0)
         /\ UNCHANGED <<insertOrder, classes, mangleIndex, others>>

addConstant(i, name, value) ==
    IF cmt[i].jitType_ # 0
    THEN Fatal("addConstant", i)
    ELSE /\ cmt' = [cmt EXCEPT ![i].constants_ = Emplace(@, name, value)]
         /\ WithinBounds(cmt')
         /\ last' = Ret("addConstant", i, "ok", <<name, value>>)
         /\ UNCHANGED <<insertOrder, classes, mangleIndex, others>>

addAttribute(i, name, type, isParameter) ==
    IF type = NullType \/ cmt[i].jitType_ # 0
    THEN Fatal("addAttribute", i)
    ELSE /\ IF type.kind = "Function"
            THEN /\ cmt' = [cmt EXCEPT ![i].functionAttributes_ = Emplace(@, name, type)]
                 /\ UNCHANGED insertOrder
            ELSE /\ cmt' = [cmt EXCEPT ![i].attributes_ =
                        Emplace(@, name, [type_ |-> unshapedType(type), isParam_ |-> isParameter])]
                 /\ insertOrder' =
                        IF name \in DOMAIN cmt[i].attributes_ THEN insertOrder
                        ELSE [insertOrder EXCEPT ![i] = Append(@, name)]
         /\ WithinBounds(cmt')
         /\ last' = Ret("addAttribute", i, "ok", <<name, type, isParameter>>)
         /\ UNCHANGED <<classes, mangleIndex, others>>

addModule(i, name, type, meta) ==
    IF type = NullType \/ cmt[i].jitType_ # 0
    THEN Fatal("addModule", i)
    ELSE /\ cmt' = [cmt EXCEPT ![i].modules_ =
                Append(@, [name |-> name, type |-> type, meta |-> meta])]
         /\ WithinBounds(cmt')
         /\ last' = Ret("addModule", i, "ok", <<name, type, meta>>)
         /\ UNCHANGED <<insertOrder, classes, mangleIndex, others>>

\* addOverload without its assertion.
addOverload_Unchecked(i, methodName, overloadedMethodNames) ==
    /\ cmt' = [cmt EXCEPT ![i].overloads_ = Emplace(@, methodName, overloadedMethodNames)]
    /\ WithinBounds(cmt')
    /\ last' = Ret("addOverload", i, "ok", <<methodName, overloadedMethodNames>>)
    /\ UNCHANGED <<insertOrder, classes, mangleIndex, others>>

addOverload(i, methodName, overloadedMethodNames) ==
    IF cmt[i].jitType_ # 0
    THEN Fatal("addOverload", i)
    ELSE /\ cmt' = [cmt EXCEPT ![i].overloads_ = Emplace(@, methodName, overloadedMethodNames)]
         /\ WithinBounds(cmt')
         /\ last' = Ret("addOverload", i, "ok", <<methodName, overloadedMethodNames>>)
         /\ UNCHANGED <<insertOrder, classes, mangleIndex, others>>

\* ------------------------------------------------------------------ inputs
\* The arguments the builder operations are called with.
PyClassArgs == {"K1"}
\* nullptr, or the class registered before the run.
JitTypeArgs == {0, 1}
ConstantArgs == {<<"a", "x1">>, <<"a", "y">>}
AttributeArgs ==
    {<<"a", DimTensorT, TRUE>>, <<"b", IntT, FALSE>>, <<"a", FnT1, FALSE>>, <<"a", NullType, FALSE>>}
ModuleArgs == {<<"a", SubT, 2>>, <<"a", NullType, 0>>}
OverloadArgs == {<<"a", <<"a">> >>, <<"a", <<"a", "b">> >>}

Next ==
    \/ \E i \in CMTs : jitType(i)
    \/ \E i \in CMTs : createNewTypeFromThis(i)
    \/ \E i \in CMTs, t \in JitTypeArgs : addJitType(i, t)
    \/ \E i \in CMTs, c \in PyClassArgs : addPyClass(i, c)
    \/ \E i \in CMTs, a \in ConstantArgs : addConstant(i, a[1], a[2])
    \/ \E i \in CMTs, a \in AttributeArgs : addAttribute(i, a[1], a[2], a[3])
    \/ \E i \in CMTs, a \in ModuleArgs : addModule(i, a[1], a[2], a[3])
    \/ \E i \in CMTs, a \in OverloadArgs : addOverload(i, a[1], a[2])

Spec == Init /\ [][Next]_vars

\* ------------------------------------------------------------------ properties of the builder
AddOps == {"addPyClass", "addConstant", "addAttribute", "addModule", "addOverload"}
FreezeOps == {"createNewTypeFromThis", "addJitType"}

\* C1 (freeze-once): a call of any add-operation on a ConcreteModuleType whose
\* jitType_ is set fails its assertion and writes nothing.
C1_AddAfterFreezeRejected ==
    [][\A i \in CMTs :
        (cmt[i].jitType_ # 0 /\ last'.op \in AddOps /\ last'.self = i)
            => (last'.res = "fatal" /\ cmt' = cmt /\ classes' = classes)]_vars

\* An add-operation has just been rejected on a type frozen by createNewTypeFromThis.
C1_Witness ==
    /\ last.op = "addOverload"
    /\ last.res = "fatal"
    /\ cmt[last.self].jitType_ > 1

\* C2 (at most one nominal type): once jitType_ is set it never changes, and a
\* later createNewTypeFromThis or addJitType on that object fails its assertion.
C2_NominalTypeSetOnce ==
    [][\A i \in CMTs :
        cmt[i].jitType_ # 0 =>
            /\ cmt'[i].jitType_ = cmt[i].jitType_
            /\ (last'.op \in FreezeOps /\ last'.self = i) => last'.res = "fatal"]_vars

\* createNewTypeFromThis has just been rejected on a type that had ExtClass attached.
C2_Witness ==
    /\ last.op = "createNewTypeFromThis"
    /\ last.res = "fatal"
    /\ cmt[last.self].jitType_ = 1
    /\ cmt[last.self].pyClass_ # NoneObj

\* C7 (attribute registration order), as claimed: the class a builder has just
\* created carries the builder's attributes in the order they were added.
C7_AttrsInInsertionOrder ==
    (last.op = "createNewTypeFromThis" /\ last.res = "ok") =>
        classes[cmt[last.self].jitType_].attrs
            = RegisteredAttrs(cmt[last.self], insertOrder[last.self])


\* ------------------------------------------------------------------ operator==
\* Constant::operator== that takes a failed comparison for an unequal one.
ConstantEq_Swallow(l, r) ==
    IF PyObject_RichCompareBool(l, r) = 1 THEN "true" ELSE "false"

\* Constant::operator== (lines 344-351): Python's lhs == rhs, or an exception.
ConstantEq(l, r) ==
    LET rv == PyObject_RichCompareBool(l, r)
    IN IF rv = -1 THEN "raise" ELSE IF rv = 1 THEN "true" ELSE "false"

\* Attribute::operator== (lines 359-361).
AttributeEq(l, r) ==
    IF TypeEq(l.type_, r.type_) /\ l.isParam_ = r.isParam_ THEN "true" ELSE "false"

\* ModuleInfo::operator== that also compares the nested ConcreteModuleType.
ModuleInfoEq_WithMeta(l, r) == TypeEq(l.type, r.type) /\ l.name = r.name /\ l.meta = r.meta

\* ModuleInfo::operator== (lines 371-373).
ModuleInfoEq(l, r) == TypeEq(l.type, r.type) /\ l.name = r.name

\* operator== of std::vector<std::string>.
OverloadEq(l, r) == IF l = r THEN "true" ELSE "false"

\* operator== of FunctionTypePtr, a shared_ptr: the same pointee.
FunctionTypePtrEq(l, r) == IF PtrEq(l, r) THEN "true" ELSE "false"

\* The keys two maps have in common.
Shared(l, r) == DOMAIN l \cap DOMAIN r

\* operator== of std::unordered_map: equal sizes, then every entry of l is looked
\* up in r and compared, in l's iteration order, stopping at the first entry that is
\* missing or differs.  The order is unspecified, so every entry that does not
\* compare equal can be the one that ends the comparison.
\* valueEq[k] is the outcome of comparing the two values stored under k.
MapEq(l, r, valueEq) ==
    IF Cardinality(DOMAIN l) # Cardinality(DOMAIN r) THEN {"false"}
    ELSE LET end(k) == IF k \notin DOMAIN r THEN "false" ELSE valueEq[k]
             stops == {k \in DOMAIN l : end(k) # "true"}
         IN IF stops = {} THEN {"true"} ELSE {end(k) : k \in stops}

\* operator== of std::vector<ModuleInfo>.
ModulesEq(l, r) ==
    /\ Len(l) = Len(r)
    /\ \A k \in 1..Len(l) : ModuleInfoEq(l[k], r[k])

\* The conjuncts of operator== after constants_ (lines 325-327); none can throw.
RestEq(lhs, rhs) ==
    /\ MapEq(lhs.attributes_, rhs.attributes_,
             [k \in Shared(lhs.attributes_, rhs.attributes_) |->
                AttributeEq(lhs.attributes_[k], rhs.attributes_[k])]) = {"true"}
    /\ ModulesEq(lhs.modules_, rhs.modules_)
    /\ MapEq(lhs.overloads_, rhs.overloads_,
             [k \in Shared(lhs.overloads_, rhs.overloads_) |->
                OverloadEq(lhs.overloads_[k], rhs.overloads_[k])]) = {"true"}
    /\ MapEq(lhs.functionAttributes_, rhs.functionAttributes_,
             [k \in Shared(lhs.functionAttributes_, rhs.functionAttributes_) |->
                FunctionTypePtrEq(lhs.functionAttributes_[k], rhs.functionAttributes_[k])]) = {"true"}

\* operator== without the comparison of constants_.
ConcreteModuleTypeEq_NoConstants(lhs, rhs) ==
    IF lhs.pyClass_ # rhs.pyClass_ THEN {"false"}
    ELSE {IF RestEq(lhs, rhs) THEN "true" ELSE "false"}

\* operator==(lhs, rhs) (lines 321-328): the outcomes a call can have.
ConcreteModuleTypeEq(lhs, rhs) ==
    IF lhs.pyClass_ # rhs.pyClass_ THEN {"false"}
    ELSE LET cs == MapEq(lhs.constants_, rhs.constants_,
                         [k \in Shared(lhs.constants_, rhs.constants_) |->
                            ConstantEq(lhs.constants_[k], rhs.constants_[k])])
         IN (cs \ {"true"})
            \cup (IF "true" \in cs THEN {IF RestEq(lhs, rhs) THEN "true" ELSE "false"} ELSE {})

\* A call of operator== on two of the objects.
Compare(i, j) ==
    /\ \E o \in ConcreteModuleTypeEq(cmt[i], cmt[j]) : last' = Ret("operator==", i, o, j)
    /\ UNCHANGED <<cmt, insertOrder, classes, mangleIndex, others>>

\* ------------------------------------------------------------------ built objects
\* Number of collections of one object that may be non-empty.
MaxKinds == 1

MapOf(pairs) ==
    [k \in {p[1] : p \in pairs} |-> (CHOOSE p \in pairs : p[1] = k)[2]]

MapsOver(pairs) ==
    {MapOf(S) : S \in {T \in SUBSET pairs : \A p, q \in T : p[1] = q[1] => p = q}}

\* Two more IR types: another function's type and another submodule class.
FnTg == [kind |-> "Function", obj |-> 5, tag |-> "g"]
SubT2 == [kind |-> "Class", obj |-> 6, tag |-> "T"]

ConstMaps == MapsOver(({"a"} \X PyValues) \cup {<<"b", "x1">>, <<"b", "arr">>})
AttrMaps ==
    MapsOver({"a"} \X {[type_ |-> TensorT, isParam_ |-> TRUE],
                       [type_ |-> TensorT, isParam_ |-> FALSE],
                       [type_ |-> IntT, isParam_ |-> FALSE]})
OverloadMaps == MapsOver({"a"} \X {<<"a">>, <<"a", "b">>})
FunctionMaps == MapsOver({"a"} \X {FnT1, FnT2, FnTg})
FailedMaps == MapsOver({"a"} \X {"hint"})
ModuleLists ==
    LET A0 == [name |-> "a", type |-> SubT, meta |-> 0]
        A2 == [name |-> "a", type |-> SubT, meta |-> 2]
        AT == [name |-> "a", type |-> SubT2, meta |-> 0]
        B0 == [name |-> "b", type |-> SubT, meta |-> 0]
    IN {<<>>, <<A0>>, <<A2>>, <<AT>>, <<B0>>, <<A0, B0>>, <<B0, A0>>}

Kinds(c) ==
    Cardinality({f \in {"c", "a", "o", "f", "m"} :
        \/ f = "c" /\ c.constants_ # EmptyMap
        \/ f = "a" /\ c.attributes_ # EmptyMap
        \/ f = "o" /\ c.overloads_ # EmptyMap
        \/ f = "f" /\ c.functionAttributes_ # EmptyMap
        \/ f = "m" /\ c.modules_ # <<>>})

\* The objects that differ from c in at most one member: another host class,
\* other entries in one collection, a failed attribute noted, a class type attached.
Variants(c) ==
    {c}
    \cup {[c EXCEPT !.pyClass_ = v] : v \in PyClasses}
    \cup {[c EXCEPT !.constants_ = v] : v \in ConstMaps}
    \cup {[c EXCEPT !.attributes_ = v] : v \in AttrMaps}
    \cup {[c EXCEPT !.overloads_ = v] : v \in OverloadMaps}
    \cup {[c EXCEPT !.functionAttributes_ = v] : v \in FunctionMaps}
    \cup {[c EXCEPT !.modules_ = v] : v \in ModuleLists}
    \cup {[c EXCEPT !.failedAttributes_ = v] : v \in FailedMaps}
    \cup {[c EXCEPT !.jitType_ = v] : v \in {0, 1}}

\* The objects reached from a fresh one with a host class by n such changes.
RECURSIVE Built(_)
Built(n) ==
    IF n = 0 THEN {[NewConcreteModuleType EXCEPT !.pyClass_ = k] : k \in PyClasses}
    ELSE UNION {Variants(c) : c \in Built(n - 1)}

\* ------------------------------------------------------------------ comparing built objects
InitEq ==
    /\ \E c \in {b \in Built(MaxKinds) : Kinds(b) <= MaxKinds} :
       \E d \in {v \in Variants(c) : Kinds(v) <= MaxKinds} :
            cmt = [i \in CMTs |-> IF i = 1 THEN c ELSE d]
    /\ insertOrder \in [CMTs -> UNION {Orders(S) : S \in SUBSET Names}]
    /\ \A i \in CMTs : insertOrder[i] \in Orders(DOMAIN cmt[i].attributes_)
    /\ classes = <<ExtClass>>
    /\ mangleIndex = 0
    /\ last = Ret("none", 0, "ok", 0)
    /\ Idle

NextEq == \E i, j \in CMTs : Compare(i, j)

SpecEq == InitEq /\ [][NextEq]_vars

\* C3 (equality), as claimed: operator== returns true exactly when the host
\* classes are the same object and the constant, field, submodule, overload and
\* function-attribute collections are pairwise equal, types by structure and
\* constants by host-level value.
HostEqual(l, r) == PyObject_RichCompareBool(l, r) = 1

Equivalent(lhs, rhs) ==
    /\ lhs.pyClass_ = rhs.pyClass_
    /\ DOMAIN lhs.constants_ = DOMAIN rhs.constants_
    /\ \A k \in DOMAIN lhs.constants_ : HostEqual(lhs.constants_[k], rhs.constants_[k])
    /\ DOMAIN lhs.attributes_ = DOMAIN rhs.attributes_
    /\ \A k \in DOMAIN lhs.attributes_ :
        /\ TypeEq(lhs.attributes_[k].type_, rhs.attributes_[k].type_)
        /\ lhs.attributes_[k].isParam_ = rhs.attributes_[k].isParam_
    /\ Len(lhs.modules_) = Len(rhs.modules_)
    /\ \A k \in 1..Len(lhs.modules_) :
        /\ lhs.modules_[k].name = rhs.modules_[k].name
        /\ TypeEq(lhs.modules_[k].type, rhs.modules_[k].type)
    /\ lhs.overloads_ = rhs.overloads_
    /\ DOMAIN lhs.functionAttributes_ = DOMAIN rhs.functionAttributes_
    /\ \A k \in DOMAIN lhs.functionAttributes_ :
        TypeEq(lhs.functionAttributes_[k], rhs.functionAttributes_[k])

C3_EqualIffEquivalent ==
    last.op = "operator==" =>
        (last.res = "true" <=> Equivalent(cmt[last.self], cmt[last.val]))

\* ------------------------------------------------------------------ the concrete type cache
\* The scan of the cached objects of one host class, oldest first: the first
\* that equals c (its id), none (0), or a comparison that raised (-1).
RECURSIVE Lookup(_, _)
Lookup(c, known) ==
    IF known = <<>> THEN {0}
    ELSE LET os == ConcreteModuleTypeEq(cmt[Head(known)], c)
         IN (IF "true" \in os THEN {Head(known)} ELSE {})
            \cup (IF "raise" \in os THEN {-1} ELSE {})
            \cup (IF "false" \in os THEN Lookup(c, Tail(known)) ELSE {})

\* Create-or-reuse for the builder of one structured instance: an equal cached
\* object is returned and the builder dropped; otherwise the builder creates its
\* type and is cached.
Materialize(i) ==
    /\ resolved[i] = 0
    /\ \E r \in Lookup(cmt[i], typeStore[cmt[i].pyClass_]) :
        IF r = -1
        THEN /\ last' = Ret("materialize", i, "raise", 0)
             /\ UNCHANGED <<cmt, insertOrder, classes, mangleIndex, others>>
        ELSE IF r # 0
        THEN /\ resolved' = [resolved EXCEPT ![i] = r]
             /\ last' = Ret("materialize", i, "reused", r)
             /\ UNCHANGED <<cmt, insertOrder, classes, mangleIndex, typeStore, values>>
        ELSE IF cmt[i].jitType_ # 0 \/ cmt[i].pyClass_ = NoneObj
        THEN Fatal("materialize", i)
        ELSE /\ NewType(i)
             /\ typeStore' = [typeStore EXCEPT ![cmt[i].pyClass_] = Append(@, i)]
             /\ resolved' = [resolved EXCEPT ![i] = i]
             /\ last' = Ret("materialize", i, "created", 0)
             /\ UNCHANGED <<insertOrder, values>>

NextCache ==
    \/ \E i \in CMTs : Materialize(i)
    \/ \E i, j \in CMTs : Compare(i, j)

SpecCache == InitEq /\ [][NextCache]_vars

\* The nominal type a materialized instance ended up with.
TypeOf(i) == cmt[resolved[i]].jitType_

\* C4 (structural sharing), as claimed: two instances of one host class whose
\* built objects are equivalent get the same nominal type from the cache.
C4_EquivalentShareType ==
    \A i, j \in CMTs :
        (resolved[i] # 0 /\ resolved[j] # 0 /\ Equivalent(cmt[i], cmt[j]))
            => TypeOf(i) = TypeOf(j)

\* ------------------------------------------------------------------ creating types for built objects
NextCreate ==
    \/ \E i \in CMTs : createNewTypeFromThis(i)
    \/ \E i, j \in CMTs : Compare(i, j)

SpecCreate == InitEq /\ [][NextCreate]_vars

\* C6 (names are never reused): the registered classes have pairwise different names.
C6_RegisteredNamesDistinct ==
    \A k, l \in 1..Len(classes) : k # l => classes[k].name # classes[l].name

\* Both objects created a class for a host class named M, one for K1 and one
\* for K2; the later one is mangled.
C6_Witness ==
    /\ \A i \in CMTs : cmt[i].jitType_ > 1
    /\ cmt[1].pyClass_ # cmt[2].pyClass_
    /\ \E k \in 1..Len(classes) : classes[k].name.mangle # -1
    /\ \E k \in 1..Len(classes) : classes[k].name.name = "M" /\ classes[k].name.mangle = -1

\* Same host class and same members, except for one constant whose two values
\* are unequal at host level.
DifferInOneConstant(c, d) ==
    /\ [c EXCEPT !.constants_ = EmptyMap, !.jitType_ = 0]
        = [d EXCEPT !.constants_ = EmptyMap, !.jitType_ = 0]
    /\ DOMAIN c.constants_ = DOMAIN d.constants_
    /\ \E n \in DOMAIN c.constants_ :
        /\ PyObject_RichCompareBool(c.constants_[n], d.constants_[n]) = 0
        /\ \A k \in DOMAIN c.constants_ \ {n} : c.constants_[k] = d.constants_[k]

\* The object holds a class it created itself (class 1 is ExtClass).
Created(i) == cmt[i].jitType_ > 1

\* C5 (shape divergence): two objects that differ only in the value of one
\* constant never compare equal, and once both have created their types they
\* hold two different classes with different names, the later of them mangled.
C5_ConstantChangeDiverges ==
    \A i, j \in CMTs :
        (i # j /\ DifferInOneConstant(cmt[i], cmt[j])) =>
            /\ (last.op = "operator==" /\ {last.self, last.val} = {i, j}) => last.res = "false"
            /\ (Created(i) /\ Created(j)) =>
                /\ cmt[i].jitType_ # cmt[j].jitType_
                /\ classes[cmt[i].jitType_].name # classes[cmt[j].jitType_].name
                /\ cmt[i].jitType_ < cmt[j].jitType_
                    => classes[cmt[j].jitType_].name.mangle # -1

\* Both objects, differing in one constant, created their types and were compared.
C5_Witness ==
    /\ DifferInOneConstant(cmt[1], cmt[2])
    /\ Created(1) /\ Created(2)
    /\ cmt[1].jitType_ < cmt[2].jitType_
    /\ last.op = "operator==" /\ last.self = 1 /\ last.val = 2

\* ------------------------------------------------------------------ ModuleValue
\* The ModuleValue objects of a run.
MVs == {1, 2}

NullOpt == "nullopt"

\* ConcreteModuleType::findConstant without its lookup.
findConstant_Never(c, name) == NullOpt

\* ConcreteModuleType::findConstant (lines 310-316).
findConstant(c, name) ==
    IF name \in DOMAIN c.constants_ THEN c.constants_[name] ELSE NullOpt

\* findSubmoduleConcreteType that keeps the last match of its scan.
findSubmoduleConcreteType_Last(c, name) ==
    IF \E k \in 1..Len(c.modules_) : c.modules_[k].name = name
    THEN LET lastMatch == CHOOSE k \in 1..Len(c.modules_) :
                /\ c.modules_[k].name = name
                /\ \A j \in (k + 1)..Len(c.modules_) : c.modules_[j].name # name
         IN c.modules_[lastMatch].meta
    ELSE 0

\* ConcreteModuleType::findSubmoduleConcreteType (lines 330-340): the meta of
\* the first submodule of that name, or nullptr (0).
findSubmoduleConcreteType(c, name) ==
    IF \E k \in 1..Len(c.modules_) : c.modules_[k].name = name
    THEN LET first == CHOOSE k \in 1..Len(c.modules_) :
                /\ c.modules_[k].name = name
                /\ \A j \in 1..(k - 1) : c.modules_[j].name # name
         IN c.modules_[first].meta
    ELSE 0

\* The constructor of ModuleValue (lines 395-398).
ModuleValue(self, module, concreteType) ==
    [self_ |-> self, module_ |-> module, concreteType_ |-> concreteType]

\* The constructor of OverloadedMethodValue with the names in reverse.
OverloadedMethodValue_Reversed(module, method_names) ==
    [kind |-> "OverloadedMethodValue", module_ |-> module,
     candidates_ |-> [k \in 1..Len(method_names) |-> method_names[Len(method_names) + 1 - k]]]

\* The constructor of OverloadedMethodValue (lines 162-163).
OverloadedMethodValue(module, method_names) ==
    [kind |-> "OverloadedMethodValue", module_ |-> module, candidates_ |-> method_names]

\* The constructor of OverloadedFunctionValue (lines 182-183).
OverloadedFunctionValue(compiled_overloads) ==
    [kind |-> "OverloadedFunctionValue", module_ |-> 0, candidates_ |-> compiled_overloads]

\* What attr returns: the resolution step taken and the sugared value produced.
Resolved(step, kind, value, sub, names) ==
    [step |-> step, kind |-> kind, value |-> value, sub |-> sub, names |-> names]

Unresolved == Resolved("none", "none", "", 0, <<>>)

\* ModuleValue::attr (declared at lines 406-410): first match among submodule,
\* field attribute, constant, function attribute, overload table, then the
\* host-level lookup on the live instance.
AttrOf(mv, field) ==
    LET c == mv.concreteType_
    IN IF \E k \in 1..Len(c.modules_) : c.modules_[k].name = field
       THEN Resolved("submodule", "ModuleValue", "", findSubmoduleConcreteType(c, field), <<>>)
       ELSE IF field \in DOMAIN c.attributes_
       THEN Resolved("field", "SimpleValue", "", 0, <<>>)
       ELSE IF findConstant(c, field) # NullOpt
       THEN Resolved("constant", "Constant", findConstant(c, field), 0, <<>>)
       ELSE IF field \in DOMAIN c.functionAttributes_
       THEN Resolved("function", "PythonValue", "callable", 0, <<>>)
       ELSE IF field \in DOMAIN c.overloads_
       THEN Resolved("overload", "OverloadedMethodValue", "", 0,
                     OverloadedMethodValue(mv.self_, c.overloads_[field]).candidates_)
       ELSE IF field \in DOMAIN mv.module_
       THEN Resolved("host", IF mv.module_[field] = "callable" THEN "PythonValue" ELSE "Constant",
                     mv.module_[field], 0, <<>>)
       ELSE Resolved("host", "AttributeNotFound", "", 0, <<>>)

\* What attr does: a failed host lookup is noted among the failed attributes.
AttrStep(m, field) ==
    LET r == AttrOf(moduleValue[m], field)
    IN /\ attrResult' = [attrResult EXCEPT ![m][field] = r]
       /\ moduleValue' =
            IF r.kind = "AttributeNotFound"
            THEN [moduleValue EXCEPT ![m].concreteType_.failedAttributes_ =
                        Emplace(@, field, "not found")]
            ELSE moduleValue

\* A call of attr.
attr(m, field) ==
    /\ AttrStep(m, field)
    /\ UNCHANGED <<cmt, insertOrder, classes, mangleIndex, last, typeStore, resolved,
                      declared, overloaded, callResult, sugars>>

\* The live structured instances: which names host-level lookup finds on them,
\* and as what.
LiveInstances == MapsOver({<<"a", "callable">>, <<"b", "constant">>})

\* Frozen objects in which "a" is registered in any of the five collections and
\* "b" at most as a constant.
AttrShapes ==
    {[NewConcreteModuleType EXCEPT
        !.pyClass_ = "K1", !.jitType_ = 1,
        !.modules_ = ms, !.attributes_ = as, !.constants_ = cs,
        !.functionAttributes_ = fs, !.overloads_ = os] :
     ms \in {<<>>, <<[name |-> "a", type |-> SubT, meta |-> 2]>>},
     as \in MapsOver({<<"a", [type_ |-> TensorT, isParam_ |-> TRUE]>>}),
     cs \in MapsOver({<<"a", "x1">>, <<"b", "y">>}),
     fs \in MapsOver({<<"a", FnT1>>}),
     os \in MapsOver({<<"a", <<"a", "b">> >>})}

\* Two ModuleValues over two live instances; the second holds the same
\* ConcreteModuleType as the first, or that type without its constants.
InitAttr ==
    /\ cmt = [i \in CMTs |-> NewConcreteModuleType]
    /\ insertOrder = [i \in CMTs |-> <<>>]
    /\ classes = <<ExtClass>>
    /\ mangleIndex = 0
    /\ last = Ret("none", 0, "ok", 0)
    /\ typeStore = [k \in PyClasses \cup {NoneObj} |-> <<>>]
    /\ resolved = [i \in CMTs |-> 0]
    /\ \E c \in AttrShapes, m1 \in LiveInstances, m2 \in LiveInstances :
       \E d \in {c, [c EXCEPT !.constants_ = EmptyMap]} :
            moduleValue = [m \in MVs |->
                IF m = 1 THEN ModuleValue(1, m1, c) ELSE ModuleValue(2, m2, d)]
    /\ attrResult = [m \in MVs |-> [f \in Names |-> Unresolved]]
    /\ declared = <<>>
    /\ overloaded = NoValue
    /\ callResult = NoValue
    /\ NoSugar

NextAttr == \E m \in MVs, f \in Names : attr(m, f)

SpecAttr == InitAttr /\ [][NextAttr]_vars

\* The two ModuleValues hold equal ConcreteModuleTypes with the same nominal type.
ShareType ==
    /\ moduleValue[1].concreteType_.jitType_ = moduleValue[2].concreteType_.jitType_
    /\ ConcreteModuleTypeEq(moduleValue[1].concreteType_, moduleValue[2].concreteType_) = {"true"}

\* C8 (identical resolution), as claimed: when the two ModuleValues share a
\* ConcreteModuleType, attr of any name takes the same step and yields the same
\* kind of value on both, whichever live instance backs them.
C8_SharedTypeResolvesAlike ==
    \A f \in Names :
        (ShareType /\ attrResult[1][f] # Unresolved /\ attrResult[2][f] # Unresolved)
            => /\ attrResult[1][f].step = attrResult[2][f].step
               /\ attrResult[1][f].kind = attrResult[2][f].kind

\* The collections of a ConcreteModuleType in which a name is registered.
RegisteredIn(c, name) ==
    {s \in {"submodule", "field", "constant", "function", "overload"} :
        \/ s = "submodule" /\ \E k \in 1..Len(c.modules_) : c.modules_[k].name = name
        \/ s = "field" /\ name \in DOMAIN c.attributes_
        \/ s = "constant" /\ name \in DOMAIN c.constants_
        \/ s = "function" /\ name \in DOMAIN c.functionAttributes_
        \/ s = "overload" /\ name \in DOMAIN c.overloads_}

\* The position of a step in the resolution order.
Rank(step) ==
    CHOOSE k \in 1..6 :
        <<"submodule", "field", "constant", "function", "overload", "host">>[k] = step

\* C9 (attribute precedence): attr resolves a name through the earliest, in the
\* order submodule, field, constant, function attribute, overload table, of the
\* collections it is registered in; a name registered in none goes to the
\* host-level lookup and fails with AttributeNotFound exactly when that misses.
C9_FirstMatchInFixedOrder ==
    \A m \in MVs, f \in Names :
        attrResult[m][f] # Unresolved =>
            LET r == attrResult[m][f]
                cats == RegisteredIn(moduleValue[m].concreteType_, f)
            IN IF cats = {}
               THEN /\ r.step = "host"
                    /\ r.kind = "AttributeNotFound" <=> f \notin DOMAIN moduleValue[m].module_
               ELSE /\ r.step \in cats
                    /\ \A s \in cats : Rank(r.step) <= Rank(s)

\* "a" is a constant, a function attribute and an overload table at once and
\* resolved as a constant; "b" is registered nowhere and not found on the host.
C9_Witness ==
    /\ RegisteredIn(moduleValue[1].concreteType_, "a") = {"constant", "function", "overload"}
    /\ attrResult[1]["a"].step = "constant"
    /\ RegisteredIn(moduleValue[1].concreteType_, "b") = {}
    /\ attrResult[1]["b"].kind = "AttributeNotFound"

\* ------------------------------------------------------------------ overloaded values
\* Longest candidate list of an overloaded value.
MaxOverloads == 3

\* The candidate callables and the argument lists of a call.
Candidates == {"f_int", "f_num", "f_str"}
CallArgs == {<<>>, <<"int">>, <<"float">>, <<"str">>}

\* The schema matcher: whether a candidate's signature binds the arguments.
Binds(cand, args) ==
    /\ Len(args) = 1
    /\ \/ cand = "f_int" /\ args[1] = "int"
       \/ cand = "f_num" /\ args[1] \in {"int", "float"}
       \/ cand = "f_str" /\ args[1] = "str"

CandidateLists == UNION {[1..n -> Candidates] : n \in 0..MaxOverloads}

\* OverloadedMethodValue::call / OverloadedFunctionValue::call (declared at
\* lines 169-174 and 189-194): the candidates are tried in stored order up to the
\* first that binds, which is invoked; if none binds the call fails and reports
\* every candidate in stored order.
OverloadedCall(args) ==
    LET cands == overloaded.candidates_
        binding == {k \in 1..Len(cands) : Binds(cands[k], args)}
    IN /\ callResult' =
            IF binding = {}
            THEN [kind |-> "NoMatchingOverload", args |-> args, invoked |-> "",
                  tried |-> cands, diagnostic |-> cands]
            ELSE LET k == CHOOSE x \in binding : \A y \in binding : x <= y
                 IN [kind |-> "ok", args |-> args, invoked |-> cands[k],
                     tried |-> SubSeq(cands, 1, k), diagnostic |-> <<>>]
       /\ UNCHANGED <<cmt, insertOrder, classes, mangleIndex, last, typeStore, resolved,
                      moduleValue, attrResult, declared, overloaded, sugars>>

InitOverload ==
    /\ cmt = [i \in CMTs |-> NewConcreteModuleType]
    /\ insertOrder = [i \in CMTs |-> <<>>]
    /\ classes = <<ExtClass>>
    /\ mangleIndex = 0
    /\ last = Ret("none", 0, "ok", 0)
    /\ typeStore = [k \in PyClasses \cup {NoneObj} |-> <<>>]
    /\ resolved = [i \in CMTs |-> 0]
    /\ moduleValue = <<>>
    /\ attrResult = <<>>
    /\ declared \in CandidateLists
    /\ overloaded \in {OverloadedMethodValue(1, declared), OverloadedFunctionValue(declared)}
    /\ callResult = NoValue
    /\ NoSugar

NextOverload == \E args \in CallArgs : OverloadedCall(args)

SpecOverload == InitOverload /\ [][NextOverload]_vars

\* C10 (overload order): a call invokes the first candidate, in declared order,
\* whose signature binds the arguments, having tried exactly the candidates up
\* to it; if none binds it fails with NoMatchingOverload and the diagnostic is
\* the declared list.
C10_FirstBindingInDeclaredOrder ==
    callResult # NoValue =>
        LET binding == {k \in 1..Len(declared) : Binds(declared[k], callResult.args)}
        IN IF binding = {}
           THEN /\ callResult.kind = "NoMatchingOverload"
                /\ callResult.diagnostic = declared
           ELSE /\ callResult.kind = "ok"
                /\ \E k \in binding :
                    /\ \A j \in 1..(k - 1) : j \notin binding
                    /\ callResult.invoked = declared[k]
                    /\ callResult.tried = SubSeq(declared, 1, k)

\* Three different candidates; the first two both bind the arguments and the
\* first was invoked.
C10_Witness ==
    /\ Len(declared) = 3
    /\ declared[1] = "f_num" /\ declared[2] = "f_int" /\ declared[3] = "f_str"
    /\ overloaded.kind = "OverloadedMethodValue"
    /\ callResult # NoValue
    /\ callResult.args = <<"int">>
    /\ callResult.invoked = "f_num"

\* ------------------------------------------------------------------ concurrent compilation paths
\* Each compilation path p owns the builder cmt[p]: it fills it with
\* add-operations and hands it to the cache, whose create-or-reuse is one
\* serialized step.  A path whose builder was dropped for a cached object is done.
PathConstantArgs == {<<"a", "x1">>, <<"a", "x2">>}
PathAttributeArgs == {<<"a", FnT1, FALSE>>, <<"a", FnT2, FALSE>>, <<"b", IntT, FALSE>>}

Owns(p) == resolved[p] \in {0, p}

NextPaths ==
    \/ \E p \in CMTs, c \in PyClassArgs : Owns(p) /\ addPyClass(p, c)
    \/ \E p \in CMTs, a \in PathConstantArgs : Owns(p) /\ addConstant(p, a[1], a[2])
    \/ \E p \in CMTs, a \in PathAttributeArgs : Owns(p) /\ addAttribute(p, a[1], a[2], a[3])
    \/ \E p \in CMTs : Owns(p) /\ Materialize(p)

SpecPaths == Init /\ [][NextPaths]_vars

\* The cached objects of all host classes.
Cached == UNION {{typeStore[k][n] : n \in 1..Len(typeStore[k])} : k \in PyClasses}

\* C11 (serialized insertion), as claimed: in every interleaving of the paths,
\* the cache holds at most one object, hence one nominal type, per shape: no
\* two cached objects are equivalent, and every path whose builder is
\* equivalent to a cached object resolved to that object's type.
C11_OneTypePerShape ==
    /\ \A i, j \in Cached : Equivalent(cmt[i], cmt[j]) => i = j
    /\ \A p \in CMTs, i \in Cached :
        (resolved[p] # 0 /\ Equivalent(cmt[p], cmt[i])) => TypeOf(p) = cmt[i].jitType_

\* ------------------------------------------------------------------ constant tuples and parameter lists
\* Longest sequence a tuple value is constructed from.
MaxTuple == 2

\* Most reads of tuple values, and most tuple values, in a run.
MaxReads == 2
MaxTupleValues == 2

\* shared_ptr<SugaredValue> elements and Value* IR values.
Elems == {"e1", "e2"}
IRValues == {"v1", "v2"}

TupleSeqs == UNION {[1..n -> Elems] : n \in 0..MaxTuple}

\* at::ArrayRef<NamedValue> arguments: no argument or one.
ArgLists == {<<>>, <<"arg">>}

\* toSimple with the value dropped.
toSimple_Null(v) == [kind |-> "SimpleValue", value_ |-> "nullptr"]

\* toSimple (lines 17-19).
toSimple(v) == [kind |-> "SimpleValue", value_ |-> v]

\* The constructor of ConstantParameterList (line 96).
ConstantParameterList(the_list) == [kind |-> "constant parameter list", the_list_ |-> the_list]

\* The constructor of ConstantTupleValue storing the elements in reverse.
ConstantTupleValue_Reversed(tup, callable) ==
    [kind |-> "constant tuple",
     tup_ |-> [k \in 1..Len(tup) |-> tup[Len(tup) + 1 - k]],
     callable_ |-> callable]

\* The constructor of ConstantTupleValue (lines 114-117): tup_ is copied from
\* the argument; callable_ has no initialiser, its value is indeterminate and
\* is passed here as the value it happens to have.
ConstantTupleValue(tup, callable) ==
    [kind |-> "constant tuple", tup_ |-> tup, callable_ |-> callable]

\* The constructor of ConstantTupleMethod (lines 135-138).
ConstantTupleMethod(tup, name) == [kind |-> name, tup_ |-> tup, name_ |-> name]

SugarRet(op, self, inputs, attributes, res, val) ==
    [op |-> op, self |-> self, inputs |-> inputs, attributes |-> attributes,
     res |-> res, val |-> val]

\* ConstantTupleMethod::call that looks at the positional arguments only.
ConstantTupleMethodCall_InputsOnly(inputs, attributes) ==
    IF Len(inputs) # 0
    THEN /\ sugarLast' = SugarRet("ConstantTupleMethod::call", 0, inputs, attributes, "ErrorReport",
                                  <<tupleMethod.name_, " method does not accept any arguments">>)
         /\ UNCHANGED <<tupleMethod, tupleValues, paramList, given>>
    ELSE /\ Len(tupleValues) < MaxTupleValues
         /\ \E indeterminate \in BOOLEAN :
                tupleValues' = Append(tupleValues, ConstantTupleValue(tupleMethod.tup_, indeterminate))
         /\ given' = [given EXCEPT !.tups = Append(@, given.method), !.reads = Append(@, 0)]
         /\ sugarLast' = SugarRet("ConstantTupleMethod::call", 0, inputs, attributes, "ok",
                                  Len(tupleValues) + 1)
         /\ UNCHANGED <<tupleMethod, paramList>>

\* ConstantTupleMethod::call (lines 144-155).
ConstantTupleMethodCall(inputs, attributes) ==
    IF Len(inputs) # 0 \/ Len(attributes) # 0
    THEN /\ sugarLast' = SugarRet("ConstantTupleMethod::call", 0, inputs, attributes, "ErrorReport",
                                  <<tupleMethod.name_, " method does not accept any arguments">>)
         /\ UNCHANGED <<tupleMethod, tupleValues, paramList, given>>
    ELSE /\ Len(tupleValues) < MaxTupleValues
         /\ \E indeterminate \in BOOLEAN :
                tupleValues' = Append(tupleValues, ConstantTupleValue(tupleMethod.tup_, indeterminate))
         /\ given' = [given EXCEPT !.tups = Append(@, given.method), !.reads = Append(@, 0)]
         /\ sugarLast' = SugarRet("ConstantTupleMethod::call", 0, inputs, attributes, "ok",
                                  Len(tupleValues) + 1)
         /\ UNCHANGED <<tupleMethod, paramList>>

\* ConstantTupleValue::asTuple (lines 119-124) on the v-th tuple value.
asTuple(v) ==
    /\ given.nreads < MaxReads
    /\ sugarLast' = SugarRet("ConstantTupleValue::asTuple", v, <<>>, <<>>, "ok", tupleValues[v].tup_)
    /\ given' = [given EXCEPT !.reads[v] = @ + 1, !.nreads = @ + 1]
    /\ UNCHANGED <<tupleMethod, tupleValues, paramList>>

\* ConstantParameterList::call (lines 100-107).
ConstantParameterListCall(inputs, attributes) ==
    /\ sugarLast' = SugarRet("ConstantParameterList::call", 0, inputs, attributes, "ok",
                             toSimple(paramList.the_list_))
    /\ UNCHANGED <<tupleMethod, tupleValues, paramList, given>>

\* A tuple method, one tuple value constructed directly, and a parameter list.
InitSugar ==
    /\ cmt = [i \in CMTs |-> NewConcreteModuleType]
    /\ insertOrder = [i \in CMTs |-> <<>>]
    /\ classes = <<ExtClass>>
    /\ mangleIndex = 0
    /\ last = Ret("none", 0, "ok", 0)
    /\ typeStore = [k \in PyClasses \cup {NoneObj} |-> <<>>]
    /\ resolved = [i \in CMTs |-> 0]
    /\ moduleValue = <<>>
    /\ attrResult = <<>>
    /\ declared = <<>>
    /\ overloaded = NoValue
    /\ callResult = NoValue
    /\ \E mtup \in TupleSeqs, vtup \in TupleSeqs, list \in IRValues, indeterminate \in BOOLEAN :
        /\ tupleMethod = ConstantTupleMethod(mtup, "index")
        /\ tupleValues = <<ConstantTupleValue(vtup, indeterminate)>>
        /\ paramList = ConstantParameterList(list)
        /\ given = [method |-> mtup, tups |-> <<vtup>>, reads |-> <<0>>, nreads |-> 0,
                    list |-> list]
    /\ sugarLast = SugarRet("none", 0, <<>>, <<>>, "ok", 0)

NextSugar ==
    \/ /\ \E inputs \in ArgLists, attributes \in ArgLists : ConstantTupleMethodCall(inputs, attributes)
       /\ UNCHANGED <<cmt, insertOrder, classes, mangleIndex, last, typeStore, resolved,
                      moduleValue, attrResult, declared, overloaded, callResult>>
    \/ /\ \E v \in 1..Len(tupleValues) : asTuple(v)
       /\ UNCHANGED <<cmt, insertOrder, classes, mangleIndex, last, typeStore, resolved,
                      moduleValue, attrResult, declared, overloaded, callResult>>
    \/ /\ \E inputs \in ArgLists, attributes \in ArgLists : ConstantParameterListCall(inputs, attributes)
       /\ UNCHANGED <<cmt, insertOrder, classes, mangleIndex, last, typeStore, resolved,
                      moduleValue, attrResult, declared, overloaded, callResult>>

SpecSugar == InitSugar /\ [][NextSugar]_vars

\* C12 (zero-argument accessor): a call of the ConstantTupleMethod succeeds
\* exactly when it has neither positional nor keyword arguments; otherwise it
\* fails with the error that the method accepts no arguments and constructs
\* nothing; a successful call constructs one new ConstantTupleValue holding the
\* accessor's sequence; in both cases the accessor is unchanged.
C12_ZeroArgumentsOnly ==
    [][sugarLast'.op = "ConstantTupleMethod::call" =>
        /\ tupleMethod' = tupleMethod
        /\ sugarLast'.res = "ok" <=> (sugarLast'.inputs = <<>> /\ sugarLast'.attributes = <<>>)
        /\ sugarLast'.res # "ok" =>
            /\ sugarLast'.res = "ErrorReport"
            /\ tupleValues' = tupleValues
        /\ sugarLast'.res = "ok" =>
            /\ Len(tupleValues') = Len(tupleValues) + 1
            /\ SubSeq(tupleValues', 1, Len(tupleValues)) = tupleValues
            /\ sugarLast'.val = Len(tupleValues')
            /\ tupleValues'[sugarLast'.val].tup_ = tupleMethod.tup_]_sugars

\* A call with a keyword argument only has just failed, after a call without
\* arguments constructed a value over a two-element sequence.
C12_Witness ==
    /\ sugarLast.op = "ConstantTupleMethod::call"
    /\ sugarLast.inputs = <<>> /\ sugarLast.attributes # <<>>
    /\ sugarLast.res = "ErrorReport"
    /\ Len(tupleValues) = 2
    /\ tupleValues[2].tup_ = <<"e1", "e2">>

\* C13 (tuple round trip): asTuple returns the sequence the value was
\* constructed from, with its length and order, on every read, also for a value
\* a ConstantTupleMethod call constructed from the accessor's sequence.
C13_AsTupleRoundTrip ==
    sugarLast.op = "ConstantTupleValue::asTuple" =>
        /\ sugarLast.val = given.tups[sugarLast.self]
        /\ Len(sugarLast.val) = Len(given.tups[sugarLast.self])
        /\ \A k \in 1..Len(sugarLast.val) : sugarLast.val[k] = given.tups[sugarLast.self][k]

\* The second read of a value that the accessor constructed over <<e2, e1>>.
C13_Witness ==
    /\ sugarLast.op = "ConstantTupleValue::asTuple"
    /\ sugarLast.self = 2
    /\ given.reads[2] = 2
    /\ given.method = <<"e2", "e1">>
    /\ sugarLast.val = <<"e2", "e1">>

\* C17 (parameter list ignores its arguments): every call of the
\* ConstantParameterList, whatever its arguments, succeeds and returns a
\* SimpleValue over the list given at construction, and changes nothing.
C17_CallReturnsFixedList ==
    [][sugarLast'.op = "ConstantParameterList::call" =>
        /\ sugarLast'.res = "ok"
        /\ sugarLast'.val.kind = "SimpleValue"
        /\ sugarLast'.val.value_ = given.list
        /\ paramList' = paramList]_sugars

\* A call with positional and keyword arguments returned the list.
C17_Witness ==
    /\ sugarLast.op = "ConstantParameterList::call"
    /\ sugarLast.inputs # <<>> /\ sugarLast.attributes # <<>>
    /\ sugarLast.val = toSimple("v2")
    /\ given.list = "v2"

\* ------------------------------------------------------------------ operator== step by step
\* The comparison of constants_ entry by entry, in the iteration order `order`
\* of lhs.constants_, from its k-th entry on: the outcome, and the pairs of
\* constants handed to Constant::operator== so far (calls).
RECURSIVE ConstantsScan(_, _, _, _, _)
ConstantsScan(l, r, order, k, calls) ==
    IF k > Len(order) THEN [res |-> "true", calls |-> calls]
    ELSE IF order[k] \notin DOMAIN r THEN [res |-> "false", calls |-> calls]
    ELSE LET made == Append(calls, <<l[order[k]], r[order[k]]>>)
             o == ConstantEq(l[order[k]], r[order[k]])
         IN IF o = "true" THEN ConstantsScan(l, r, order, k + 1, made)
            ELSE [res |-> o, calls |-> made]

\* operator==(lhs, rhs) (lines 321-328) evaluated left to right for one
\* iteration order of lhs.constants_.
ConcreteModuleTypeEqTraced(lhs, rhs, order) ==
    IF lhs.pyClass_ # rhs.pyClass_ THEN [res |-> "false", calls |-> <<>>]
    ELSE IF Cardinality(DOMAIN lhs.constants_) # Cardinality(DOMAIN rhs.constants_)
    THEN [res |-> "false", calls |-> <<>>]
    ELSE LET cs == ConstantsScan(lhs.constants_, rhs.constants_, order, 1, <<>>)
         IN IF cs.res # "true" THEN cs
            ELSE [res |-> IF RestEq(lhs, rhs) THEN "true" ELSE "false", calls |-> cs.calls]

\* A call of operator== on two of the objects, with the calls of host-level
\* equality it made.
CompareTraced(i, j) ==
    /\ \E order \in Orders(DOMAIN cmt[i].constants_) :
        LET t == ConcreteModuleTypeEqTraced(cmt[i], cmt[j], order)
        IN last' = [op |-> "operator==", self |-> i, res |-> t.res, val |-> j, calls |-> t.calls]
    /\ UNCHANGED <<cmt, insertOrder, classes, mangleIndex, others>>

NextTraced == \E i, j \in CMTs : CompareTraced(i, j)

SpecTraced == InitEq /\ [][NextTraced]_vars

\* The host-level comparison of a pair of constants raises.
Raises(pair) == PyObject_RichCompareBool(pair[1], pair[2]) = -1

\* C14 (failure propagation): operator== ends with the host's exception exactly
\* when it handed host-level equality a pair of constants on which it raises;
\* it stops at the first pair that is not equal, so every earlier pair compared
\* equal; and with different host classes it returns false without calling
\* host-level equality at all.
C14_HostFailurePropagates ==
    last.op = "operator==" =>
        /\ last.res = "raise" <=> \E k \in 1..Len(last.calls) : Raises(last.calls[k])
        /\ \A k \in 1..(Len(last.calls) - 1) :
            PyObject_RichCompareBool(last.calls[k][1], last.calls[k][2]) = 1
        /\ cmt[last.self].pyClass_ # cmt[last.val].pyClass_
            => (last.res = "false" /\ last.calls = <<>>)
        /\ last.res \in ConcreteModuleTypeEq(cmt[last.self], cmt[last.val])

\* Two constants were compared, the first pair equal by value and the second
\* pair raising, and the comparison raised.
C14_Witness ==
    /\ last.op = "operator=="
    /\ Len(last.calls) = 2
    /\ last.calls[1] = <<"x1", "x2">>
    /\ Raises(last.calls[2])
    /\ last.res = "raise"

\* ------------------------------------------------------------------ submodules
\* Submodules registered with a nested ConcreteModuleType (1, 2) or without one (0).
SubmoduleArgs == {<<"a", SubT, 1>>, <<"a", SubT2, 2>>, <<"b", SubT, 0>>, <<"b", NullType, 1>>}

\* A call of findSubmoduleConcreteType on an object.
FindSubmodule(i, name) ==
    /\ last' = [op |-> "findSubmoduleConcreteType", self |-> i, res |-> "ok",
                val |-> findSubmoduleConcreteType(cmt[i], name), name |-> name]
    /\ UNCHANGED <<cmt, insertOrder, classes, mangleIndex, others>>

NextModules ==
    \/ \E i \in CMTs, a \in SubmoduleArgs : addModule(i, a[1], a[2], a[3])
    \/ \E i \in CMTs, t \in JitTypeArgs : addJitType(i, t)
    \/ \E i \in CMTs, n \in Names : FindSubmodule(i, n)

SpecModules == Init /\ [][NextModules]_vars

\* C15 (submodule lookup): a successful addModule appends its entry to the
\* submodule list and nothing else changes the list, so the list is the
\* registrations in call order; findSubmoduleConcreteType returns the nested
\* ConcreteModuleType of the first entry of that name, nullptr if there is
\* none, and changes nothing.
C15_FirstRegisteredSubmodule ==
    [][\A i \in CMTs :
        /\ IF last'.op = "addModule" /\ last'.self = i /\ last'.res = "ok"
           THEN cmt'[i].modules_ =
                    Append(cmt[i].modules_,
                           [name |-> last'.val[1], type |-> last'.val[2], meta |-> last'.val[3]])
           ELSE cmt'[i].modules_ = cmt[i].modules_
        /\ (last'.op = "findSubmoduleConcreteType" /\ last'.self = i) =>
            LET ms == cmt[i].modules_
                named == {k \in 1..Len(ms) : ms[k].name = last'.name}
            IN /\ cmt' = cmt
               /\ IF named = {} THEN last'.val = 0
                  ELSE \E k \in named : /\ \A j \in named : k <= j
                                        /\ last'.val = ms[k].meta]_vars

\* Two submodules named "a" were registered, with nested types 2 and then 1, and
\* the lookup of "a" returned 2.
C15_Witness ==
    /\ last.op = "findSubmoduleConcreteType"
    /\ last.name = "a"
    /\ Len(cmt[last.self].modules_) = 2
    /\ cmt[last.self].modules_[1] = [name |-> "a", type |-> SubT2, meta |-> 2]
    /\ cmt[last.self].modules_[2] = [name |-> "a", type |-> SubT, meta |-> 1]
    /\ last.val = 2

\* ------------------------------------------------------------------ calling a ModuleValue
\* Source ranges, calling functions and binder counts of a call.
Locs == {"loc1", "loc2"}
Callers == {"fn"}
Binders == {0, 1}

\* The invocation of call on a sugared value.
Invocation(target, loc, caller, inputs, attributes, n_binders) ==
    [target |-> target, loc |-> loc, caller |-> caller, inputs |-> inputs,
     attributes |-> attributes, n_binders |-> n_binders]

\* ModuleValue::call that hands the keyword arguments on as positional ones.
ModuleValueCall_Swapped(m, loc, caller, inputs, attributes, n_binders) ==
    LET r == AttrOf(moduleValue[m], "forward")
    IN /\ AttrStep(m, "forward")
       /\ callResult' =
            [kind |-> "ModuleValue::call", self |-> m,
             args |-> Invocation(m, loc, caller, inputs, attributes, n_binders),
             res |-> IF r.kind = "AttributeNotFound" THEN "AttributeNotFound" ELSE "called",
             invoked |-> IF r.kind = "AttributeNotFound" THEN <<>>
                         ELSE <<Invocation(r, loc, caller, attributes, inputs, n_binders)>>]
       /\ UNCHANGED <<cmt, insertOrder, classes, mangleIndex, last, typeStore, resolved,
                      declared, overloaded, sugars>>

\* ModuleValue::call (lines 412-421): attr("forward"), then call on what it
\* returned; an error thrown by attr leaves the function before anything is called.
ModuleValueCall(m, loc, caller, inputs, attributes, n_binders) ==
    LET r == AttrOf(moduleValue[m], "forward")
    IN /\ AttrStep(m, "forward")
       /\ callResult' =
            [kind |-> "ModuleValue::call", self |-> m,
             args |-> Invocation(m, loc, caller, inputs, attributes, n_binders),
             res |-> IF r.kind = "AttributeNotFound" THEN "AttributeNotFound" ELSE "called",
             invoked |-> IF r.kind = "AttributeNotFound" THEN <<>>
                         ELSE <<Invocation(r, loc, caller, inputs, attributes, n_binders)>>]
       /\ UNCHANGED <<cmt, insertOrder, classes, mangleIndex, last, typeStore, resolved,
                      declared, overloaded, sugars>>

\* Frozen objects in which "forward" is registered in any of the collections.
ForwardShapes ==
    {[NewConcreteModuleType EXCEPT
        !.pyClass_ = "K1", !.jitType_ = 1,
        !.modules_ = ms, !.constants_ = cs, !.functionAttributes_ = fs, !.overloads_ = os] :
     ms \in {<<>>, <<[name |-> "forward", type |-> SubT, meta |-> 2]>>},
     cs \in MapsOver({<<"forward", "x1">>}),
     fs \in MapsOver({<<"forward", FnT1>>}),
     os \in MapsOver({<<"forward", <<"forward_int", "forward_str">> >>})}

InitCall ==
    /\ cmt = [i \in CMTs |-> NewConcreteModuleType]
    /\ insertOrder = [i \in CMTs |-> <<>>]
    /\ classes = <<ExtClass>>
    /\ mangleIndex = 0
    /\ last = Ret("none", 0, "ok", 0)
    /\ typeStore = [k \in PyClasses \cup {NoneObj} |-> <<>>]
    /\ resolved = [i \in CMTs |-> 0]
    /\ \E c \in ForwardShapes, live \in MapsOver({<<"forward", "callable">>}) :
       \E d \in {c, [NewConcreteModuleType EXCEPT !.pyClass_ = "K1", !.jitType_ = 1]} :
            moduleValue = [m \in MVs |->
                IF m = 1 THEN ModuleValue(1, live, c) ELSE ModuleValue(2, EmptyMap, d)]
    /\ attrResult = [m \in MVs |-> [f \in {"forward"} |-> Unresolved]]
    /\ declared = <<>>
    /\ overloaded = NoValue
    /\ callResult = NoValue
    /\ NoSugar

NextCall ==
    \/ \E m \in MVs, loc \in Locs, caller \in Callers, inputs \in ArgLists,
          attributes \in ArgLists, n \in Binders :
            ModuleValueCall(m, loc, caller, inputs, attributes, n)
    \/ \E m \in MVs : attr(m, "forward")

SpecCall == InitCall /\ [][NextCall]_vars

\* C16 (call is attr("forward") then call): a call on a ModuleValue invokes
\* call exactly once, on what attr("forward") resolves to on that ModuleValue,
\* with the location, caller, positional inputs, keyword attributes and binder
\* count it was given; if attr("forward") fails with AttributeNotFound the call
\* fails with that error and invokes nothing.
C16_CallIsAttrForwardThenCall ==
    callResult.kind = "ModuleValue::call" =>
        LET fwd == attrResult[callResult.self]["forward"]
            a == callResult.args
        IN /\ fwd # Unresolved
           /\ fwd = AttrOf(moduleValue[callResult.self], "forward")
           /\ IF fwd.kind = "AttributeNotFound"
              THEN callResult.res = "AttributeNotFound" /\ callResult.invoked = <<>>
              ELSE /\ callResult.res = "called"
                   /\ Len(callResult.invoked) = 1
                   /\ callResult.invoked[1].target = fwd
                   /\ callResult.invoked[1].loc = a.loc
                   /\ callResult.invoked[1].caller = a.caller
                   /\ callResult.invoked[1].inputs = a.inputs
                   /\ callResult.invoked[1].attributes = a.attributes
                   /\ callResult.invoked[1].n_binders = a.n_binders

\* A call with a positional argument and no keyword argument reached the
\* overloaded forward of ModuleValue 1, after forward was not found on ModuleValue 2.
C16_Witness ==
    /\ callResult.kind = "ModuleValue::call"
    /\ callResult.self = 1
    /\ callResult.args.inputs # <<>> /\ callResult.args.attributes = <<>>
    /\ callResult.res = "called"
    /\ callResult.invoked[1].target.kind = "OverloadedMethodValue"
    /\ attrResult[2]["forward"].kind = "AttributeNotFound"
    /\ "forward" \in DOMAIN moduleValue[2].concreteType_.failedAttributes_

\* ------------------------------------------------------------------ missing required state
\* C18 (missing state is fatal): jitType() on an object without a nominal type
\* fails; createNewTypeFromThis on an object without a host class fails; and a
\* failed jitType() or createNewTypeFromThis changes neither the object nor the
\* compilation unit: no class is registered and jitType_ stays as it was.
C18_MissingStateIsFatal ==
    [][\A i \in CMTs :
        /\ (last'.op = "jitType" /\ last'.self = i /\ cmt[i].jitType_ = 0)
            => last'.res = "fatal"
        /\ (last'.op = "createNewTypeFromThis" /\ last'.self = i /\ cmt[i].pyClass_ = NoneObj)
            => last'.res = "fatal"
        /\ (last'.op \in {"jitType", "createNewTypeFromThis"} /\ last'.self = i
                /\ last'.res = "fatal")
            => /\ cmt' = cmt
               /\ classes' = classes
               /\ mangleIndex' = mangleIndex
               /\ insertOrder' = insertOrder]_vars

\* createNewTypeFromThis has just failed on a builder that holds an attribute
\* but no host class; only the class registered before the run exists.
C18_Witness ==
    /\ last.op = "createNewTypeFromThis"
    /\ last.res = "fatal"
    /\ cmt[last.self].pyClass_ = NoneObj
    /\ cmt[last.self].jitType_ = 0
    /\ cmt[last.self].attributes_ # EmptyMap
    /\ classes = <<ExtClass>>

\* ------------------------------------------------------------------ repeated adds
\* Arguments that add a name twice, with different values.
AddConstantArgs == {<<"a", "x1">>, <<"a", "y">>}
AddAttributeArgs ==
    {<<"a", DimTensorT, TRUE>>, <<"a", IntT, FALSE>>, <<"a", FnT1, FALSE>>, <<"a", FnTg, FALSE>>}
AddModuleArgs == {<<"a", SubT, 1>>, <<"a", SubT2, 2>>}
AddOverloadArgs == {<<"a", <<"a">> >>, <<"a", <<"a", "b">> >>}

NextAdds ==
    \/ \E i \in CMTs, a \in AddConstantArgs : addConstant(i, a[1], a[2])
    \/ \E i \in CMTs, a \in AddAttributeArgs : addAttribute(i, a[1], a[2], a[3])
    \/ \E i \in CMTs, a \in AddModuleArgs : addModule(i, a[1], a[2], a[3])
    \/ \E i \in CMTs, a \in AddOverloadArgs : addOverload(i, a[1], a[2])

SpecAdds == Init /\ [][NextAdds]_vars

\* What an add of value v under name n must do to map m: nothing when n is
\* present, the new entry otherwise; no other entry changes.
FirstWins(m, mNext, n, v) ==
    /\ DOMAIN mNext = DOMAIN m \cup {n}
    /\ \A k \in DOMAIN m : mNext[k] = m[k]
    /\ n \notin DOMAIN m => mNext[n] = v

\* C19 (first add wins): in the building phase an add of a constant, a field
\* attribute, a function attribute or an overload table under a name its map
\* already holds changes nothing, and under a new name adds just that entry;
\* addModule appends an entry whether or not the name is already in the list.
C19_FirstAddWins ==
    [][\A i \in CMTs : (last'.self = i /\ last'.res = "ok") =>
        LET c == cmt[i]
            d == cmt'[i]
            a == last'.val
        IN /\ last'.op = "addConstant" =>
                /\ FirstWins(c.constants_, d.constants_, a[1], a[2])
                /\ d = [c EXCEPT !.constants_ = d.constants_]
           /\ (last'.op = "addAttribute" /\ a[2].kind # "Function") =>
                /\ FirstWins(c.attributes_, d.attributes_, a[1],
                             [type_ |-> unshapedType(a[2]), isParam_ |-> a[3]])
                /\ d = [c EXCEPT !.attributes_ = d.attributes_]
           /\ (last'.op = "addAttribute" /\ a[2].kind = "Function") =>
                /\ FirstWins(c.functionAttributes_, d.functionAttributes_, a[1], a[2])
                /\ d = [c EXCEPT !.functionAttributes_ = d.functionAttributes_]
           /\ last'.op = "addOverload" =>
                /\ FirstWins(c.overloads_, d.overloads_, a[1], a[2])
                /\ d = [c EXCEPT !.overloads_ = d.overloads_]
           /\ last'.op = "addModule" =>
                /\ d.modules_ = Append(c.modules_, [name |-> a[1], type |-> a[2], meta |-> a[3]])
                /\ d = [c EXCEPT !.modules_ = d.modules_]]_vars

\* "a" is a field and a function attribute at once, and a second function
\* attribute for "a" has just been added without replacing the first.
C19_Witness ==
    /\ last.op = "addAttribute"
    /\ last.res = "ok"
    /\ last.val = <<"a", FnTg, FALSE>>
    /\ cmt[last.self].functionAttributes_ = MapOf({<<"a", FnT1>>})
    /\ "a" \in DOMAIN cmt[last.self].attributes_

\* ------------------------------------------------------------------ what operator== does not look at
\* An object without its failed attributes, its nominal type and the nested
\* ConcreteModuleTypes of its submodules.
Strip(c) ==
    [c EXCEPT !.failedAttributes_ = EmptyMap,
              !.jitType_ = 0,
              !.modules_ = [k \in 1..Len(c.modules_) |-> [c.modules_[k] EXCEPT !.meta = 0]]]

\* C20 (what equality ignores): the result of operator== is a result of
\* comparing the two objects with failedAttributes_, jitType_ and the
\* submodules' nested types left out; two objects that differ in nothing else
\* compare equal, an object equals itself, and the result of lhs == rhs is a
\* result of rhs == lhs.
C20_EqualityIgnoresNonShapeState ==
    last.op = "operator==" =>
        LET lhs == cmt[last.self]
            rhs == cmt[last.val]
        IN /\ last.res \in ConcreteModuleTypeEq(Strip(lhs), Strip(rhs))
           /\ Strip(lhs) = Strip(rhs) => last.res = "true"
           /\ last.self = last.val => last.res = "true"
           /\ last.res \in ConcreteModuleTypeEq(rhs, lhs)
           /\ ConcreteModuleTypeEq(lhs, rhs) = ConcreteModuleTypeEq(rhs, lhs)

\* Two objects whose submodule "a" has the same class type but different nested
\* ConcreteModuleTypes compared equal.
C20_Witness ==
    /\ last.op = "operator=="
    /\ last.self = 1 /\ last.val = 2
    /\ last.res = "true"
    /\ Len(cmt[1].modules_) = 1 /\ Len(cmt[2].modules_) = 1
    /\ cmt[1].modules_[1].meta # cmt[2].modules_[1].meta

====
